---- MODULE Spec2Model ----
(***************************************************************************)
(* Model of src/prediction.py: a Telegram bot that gates a randomized      *)
(* "prediction" feature behind channel membership and persists users,      *)
(* prediction records and a leaderboard in three MongoDB collections.      *)
(*                                                                         *)
(* State: the three collections, the Application's update queue, and the   *)
(* handler coroutines in flight (one record per coroutine: the update it   *)
(* handles, its position, its locals and, in order, the provider calls and  *)
(* the store calls it has made).                                           *)
(* Every await and every store call of a handler is one step.              *)
(*                                                                         *)
(* Failures modelled: get_chat_member raising (caught by is_user_member),  *)
(* the two store writes of a prediction raising, an animation edit         *)
(* raising, and a broadcast send raising.  Replies to the triggering chat  *)
(* are taken to be delivered.  A user's handle is taken to be fixed (it is *)
(* the user id here); the first name is what changes between updates.      *)
(***************************************************************************)
EXTENDS Integers, Sequences, FiniteSets, TLC

----------------------------------------------------------------------------
(* Bounds of the model *)

NumUsers == 2
\* updates received in a run: of any kind, in a run of starts and
\* predictions, in a run of starts and broadcasts
MaxUpdates == 2
MaxPredictUpdates == 3
MaxBroadcastUpdates == 3
\* requests telegram_webhook receives in a run
MaxWebhookRequests == 2
MaxQueue == 1
MaxTasks == 2

(* Program constants *)

AdminId == 1
NumChannels == 3
NumFrames == 6
Points == 1
SmallMax == 4
MaxNumber == 10

Users == 1..NumUsers
Names == {"a", "b"}
Channels == 1..NumChannels
Tasks == 1..MaxTasks

CommandKinds ==
    {"start", "howtobet", "profile", "leaderboard", "broadcast", "stats",
     "contactus"}
PredictionKinds == {"color_prediction", "number_prediction"}
CallbackKinds == PredictionKinds \cup {"verify_membership"}
Kinds == CommandKinds \cup CallbackKinds

----------------------------------------------------------------------------
(* Store functions.  A collection is the sequence of its documents in      *)
(* insertion order.                                                        *)

RECURSIVE FindFrom(_, _, _)
FindFrom(coll, id, i) ==
    IF i > Len(coll) THEN 0
    ELSE IF coll[i].user_id = id THEN i
    ELSE FindFrom(coll, id, i + 1)

\* index of the first document of coll whose user_id is id, 0 when none
find_one(coll, id) == FindFrom(coll, id, 1)

\* update_one(filter, {'$set': doc}, upsert=True) of add_user
add_user(us, id, name, now) ==
    LET doc == [user_id |-> id, username |-> id, first_name |-> name,
                balance |-> 0, predictions |-> 0, join_date |-> now]
        i == find_one(us, id)
    IN  IF i = 0 THEN Append(us, doc) ELSE [us EXCEPT ![i] = doc]

\* variant: the document is written without the caller's id as its key
add_prediction_unkeyed(preds, id, type, result, now) ==
    Append(preds, [user_id |-> 0, type |-> type, result |-> result,
                   timestamp |-> now])

add_prediction(preds, id, type, result, now) ==
    Append(preds, [user_id |-> id, type |-> type, result |-> result,
                   timestamp |-> now])

\* variant: the score is written with '$set' instead of added with '$inc'
update_leaderboard_set(lb, id, username, points) ==
    LET i == find_one(lb, id)
    IN  IF i = 0
        THEN Append(lb, [user_id |-> id, username |-> username,
                         score |-> points])
        ELSE [lb EXCEPT ![i] = [@ EXCEPT !.username = username,
                                         !.score = points]]

\* update_one(filter, {'$set': {username}, '$inc': {score: points}}, upsert)
update_leaderboard(lb, id, username, points) ==
    LET i == find_one(lb, id)
    IN  IF i = 0
        THEN Append(lb, [user_id |-> id, username |-> username,
                         score |-> points])
        ELSE [lb EXCEPT ![i] = [@ EXCEPT !.username = username,
                                         !.score = @ + points]]

count_documents(coll, id) ==
    Cardinality({i \in 1..Len(coll) : coll[i].user_id = id})

Score(lb, id) ==
    LET i == find_one(lb, id) IN IF i = 0 THEN 0 ELSE lb[i].score

----------------------------------------------------------------------------
(* Membership gate *)

MemberStatuses == {"member", "administrator", "creator"}
ChatMemberStatuses == MemberStatuses \cup {"restricted", "left", "kicked"}
\* what one get_chat_member call yields: a status, or an exception
QueryOutcomes == ChatMemberStatuses \cup {"error"}

RECURSIVE MemberFrom(_, _)
MemberFrom(q, i) ==
    IF i > Len(q) THEN TRUE
    ELSE IF q[i] = "error" THEN FALSE
    ELSE IF q[i] \notin MemberStatuses THEN FALSE
    ELSE MemberFrom(q, i + 1)

RECURSIVE MemberFromOpen(_, _)
MemberFromOpen(q, i) ==
    IF i > Len(q) THEN TRUE
    ELSE IF q[i] = "error" THEN MemberFromOpen(q, i + 1)
    ELSE IF q[i] \notin MemberStatuses THEN FALSE
    ELSE MemberFromOpen(q, i + 1)

\* variant: a query that raises is logged and skipped (fail open)
is_user_member_failopen(q) == MemberFromOpen(q, 1)

\* q[c] is the outcome of the query for the c-th required channel
is_user_member(q) == MemberFrom(q, 1)

----------------------------------------------------------------------------
(* State *)

VARIABLES
    users,          \* users_collection
    predictions,    \* predictions_collection
    leaderboard,    \* leaderboard_collection
    update_queue,   \* application.update_queue
    ingested,       \* number of updates received so far; also the wall clock
    tasks,          \* handler coroutines, by slot
    buttons,        \* inline buttons the bot has put in front of users
    completed,      \* per user: prediction runs that delivered their result
    unscored,       \* per user: runs whose record was inserted and whose
                    \* leaderboard update then raised
    gq,             \* gate check in isolation: the query outcomes
    gres,           \* gate check in isolation: the value returned
    http            \* the last request telegram_webhook has answered

vars ==
    <<users, predictions, leaderboard, update_queue, ingested, tasks,
      buttons, completed, unscored, gq, gres, http>>

store == <<users, predictions, leaderboard>>
ghost == <<completed, unscored>>
gate_vars == <<gq, gres>>

NoDraw == [number |-> 0, label |-> "none"]

IdleTask ==
    [kind |-> "none", user |-> 0, member |-> FALSE, args |-> FALSE,
     pc |-> "idle", gate |-> "none", frame |-> 0, draw |-> NoDraw,
     out |-> <<>>, cursor |-> <<>>, sent |-> <<>>, success |-> 0,
     reported |-> -1, err |-> "none", at |-> "none", shown |-> NoDraw]

\* datetime.now(), in units of one received update
now == ingested

InitBot ==
    /\ users = <<>>
    /\ predictions = <<>>
    /\ leaderboard = <<>>
    /\ update_queue = <<>>
    /\ ingested = 0
    /\ tasks = [t \in Tasks |-> IdleTask]
    /\ buttons = {}
    /\ completed = [u \in Users |-> 0]
    /\ unscored = [u \in Users |-> 0]
    /\ http = [secret |-> "none", body |-> "none", response |-> "none",
               before |-> 0, after |-> 0]

Init ==
    /\ InitBot
    /\ gq = [c \in Channels |-> "member"]
    /\ gres = "none"

----------------------------------------------------------------------------
(* Updates arriving and being dispatched *)

\* the button a callback query needs to have been shown
ButtonOf(kind) ==
    IF kind \in PredictionKinds THEN "predict"
    ELSE IF kind = "verify_membership" THEN "verify"
    ELSE "none"

\* An update reaches the queue.  member: whether its sender holds a member
\* status in every required channel while the update is handled.
IngestOf(kinds, budget) ==
    /\ ingested < budget
    /\ Len(update_queue) < MaxQueue
    /\ \E kind \in kinds, u \in Users, m \in BOOLEAN, a \in BOOLEAN :
        /\ kind \in CallbackKinds => ButtonOf(kind) \in buttons
        /\ a => kind = "broadcast"
        /\ update_queue' =
               Append(update_queue,
                      [kind |-> kind, user |-> u, member |-> m, args |-> a])
    /\ ingested' = ingested + 1
    /\ UNCHANGED <<store, tasks, buttons, ghost, gate_vars, http>>

Ingest == IngestOf(Kinds, MaxUpdates)
IngestPredict == IngestOf({"start"} \cup PredictionKinds, MaxPredictUpdates)
IngestBroadcast == IngestOf({"start", "broadcast"}, MaxBroadcastUpdates)

\* the secret a request carries, against WEBHOOK_SECRET
Secrets == {"valid", "invalid", "missing"}
\* the body of a request: the JSON of an update, or anything else
Bodies == {"update", "malformed"}

\* telegram_webhook(request): Update.de_json(await request.json(), ...)
\* raises on a body that is no update and the server answers 500;
\* otherwise the update is put on the queue and "OK" is returned.  The
\* secret of the request is not looked at.
TelegramWebhook ==
    /\ ingested < MaxWebhookRequests
    /\ Len(update_queue) < MaxQueue
    /\ \E secret \in Secrets, body \in Bodies :
        IF body = "malformed"
        THEN /\ http' = [secret |-> secret, body |-> body,
                         response |-> "500",
                         before |-> Len(update_queue),
                         after |-> Len(update_queue)]
             /\ UNCHANGED update_queue
        ELSE \E u \in Users, m \in BOOLEAN :
             /\ update_queue' =
                    Append(update_queue,
                           [kind |-> "start", user |-> u, member |-> m,
                            args |-> FALSE])
             /\ http' = [secret |-> secret, body |-> body,
                         response |-> "OK",
                         before |-> Len(update_queue),
                         after |-> Len(update_queue')]
    /\ ingested' = ingested + 1
    /\ UNCHANGED <<store, tasks, buttons, ghost, gate_vars>>

\* first position of the handler registered for a kind of update
EntryPoint(kind) ==
    CASE kind = "start" -> "s_add"
      [] kind = "howtobet" -> "h_gate"
      [] kind = "profile" -> "p_gate"
      [] kind = "leaderboard" -> "l_reply"
      [] kind = "broadcast" -> "b_auth"
      [] kind = "stats" -> "st_auth"
      [] kind = "contactus" -> "c_reply"
      [] kind = "verify_membership" -> "v_gate"
      [] OTHER -> "answer"

Running(t) == tasks[t].pc # "idle"

\* pymongo calls block the event loop: nothing else runs between the
\* synchronous statements of a coroutine
InSyncSection(t) == tasks[t].pc \in {"insert", "inc"}
MayRun(t) == \A s \in Tasks \ {t} : ~InSyncSection(s)

StartTask(t) ==
    LET upd == Head(update_queue)
    IN  /\ tasks' = [tasks EXCEPT ![t] =
                        [IdleTask EXCEPT !.kind = upd.kind,
                                         !.user = upd.user,
                                         !.member = upd.member,
                                         !.args = upd.args,
                                         !.pc = EntryPoint(upd.kind)]]
        /\ update_queue' = Tail(update_queue)
        /\ UNCHANGED <<store, ingested, buttons, ghost, gate_vars, http>>

\* Application built without concurrent_updates: the next update is taken
\* only after the handler of the previous one has returned
Dispatch ==
    /\ update_queue # <<>>
    /\ \A t \in Tasks : ~Running(t)
    /\ StartTask(1)

\* the scheduling of Application.concurrent_updates: an update is taken as
\* soon as a coroutine can be created for it
LowestIdle ==
    CHOOSE t \in Tasks : ~Running(t) /\ \A s \in 1..(t - 1) : Running(s)
DispatchConcurrent ==
    /\ update_queue # <<>>
    /\ \E t \in Tasks : ~Running(t)
    /\ MayRun(LowestIdle)
    /\ StartTask(LowestIdle)

\* the handler returned, or raised into the Application's error logging
Finish(t) ==
    /\ tasks[t].pc \in {"done", "crashed"}
    /\ MayRun(t)
    /\ tasks' = [tasks EXCEPT ![t] = IdleTask]
    /\ UNCHANGED <<store, update_queue, ingested, buttons, ghost, gate_vars, http>>

\* the calls a handler can make on the three collections
StoreCalls ==
    {"users.update_one", "users.find_one", "users.find",
     "users.count_documents", "predictions.insert_one",
     "predictions.count_documents", "leaderboard.update_one",
     "leaderboard.find"}

\* the handler makes one more call: a provider call, or one of StoreCalls
Say(task, msg) == [task EXCEPT !.out = Append(@, msg)]
Goto(task, pc) == [task EXCEPT !.pc = pc]
\* an exception leaves the handler: err is its class, at is where it rose
Raise(task, e) == [task EXCEPT !.pc = "crashed", !.err = e, !.at = task.pc]

----------------------------------------------------------------------------
(* The gate as the handlers call it *)

\* The outcomes the provider can give for one sender: its status in each
\* channel, with at most one of the queries raising instead.  A sender who
\* is not a member of every channel has left the first one.
Statuses(member) ==
    [c \in Channels |-> IF member \/ c # 1 THEN "member" ELSE "left"]
Queries(member) ==
    {Statuses(member)} \cup
    {[Statuses(member) EXCEPT ![c] = "error"] : c \in Channels}

AfterGate(pc) ==
    CASE pc = "s_gate" -> "s_reply"
      [] pc = "h_gate" -> "h_reply"
      [] pc = "p_gate" -> "p_reply"
      [] OTHER -> "v_reply"

\* await is_user_member(user.id, context.bot)
Gate(t) ==
    /\ tasks[t].pc \in {"s_gate", "h_gate", "p_gate", "v_gate"}
    /\ MayRun(t)
    /\ \E q \in Queries(tasks[t].member) :
        tasks' = [tasks EXCEPT ![t] =
                     [@ EXCEPT !.gate = IF is_user_member(q) THEN "pass"
                                        ELSE "fail",
                               !.pc = AfterGate(@)]]
    /\ UNCHANGED <<store, update_queue, ingested, buttons, ghost, gate_vars, http>>

\* update.message is set for a command and None for a callback query
HasMessage(kind) == kind \in CommandKinds

\* ask_user_to_join(update)
AskUserToJoin(t) ==
    IF HasMessage(tasks[t].kind)
    THEN /\ tasks' = [tasks EXCEPT ![t] = Goto(Say(@, "join_prompt"), "done")]
         /\ buttons' = buttons \cup {"verify"}
    ELSE /\ tasks' = [tasks EXCEPT ![t] = Raise(@, "AttributeError")]
         /\ UNCHANGED buttons

----------------------------------------------------------------------------
(* Command handlers *)

\* start: add_user(user)
StartAddUser(t) ==
    /\ tasks[t].pc = "s_add"
    /\ MayRun(t)
    /\ \E name \in Names : users' = add_user(users, tasks[t].user, name, now)
    /\ tasks' = [tasks EXCEPT ![t] = Goto(Say(@, "users.update_one"), "s_gate")]
    /\ UNCHANGED <<predictions, leaderboard, update_queue, ingested, buttons,
                   ghost, gate_vars, http>>

\* start: the join prompt, or the welcome menu with both prediction buttons
StartReply(t) ==
    /\ tasks[t].pc = "s_reply"
    /\ MayRun(t)
    /\ IF tasks[t].gate = "fail"
       THEN AskUserToJoin(t)
       ELSE IF HasMessage(tasks[t].kind)
       THEN /\ tasks' = [tasks EXCEPT ![t] = Goto(Say(@, "welcome"), "done")]
            /\ buttons' = buttons \cup {"predict"}
       ELSE /\ tasks' = [tasks EXCEPT ![t] = Raise(@, "AttributeError")]
            /\ UNCHANGED buttons
    /\ UNCHANGED <<store, update_queue, ingested, ghost, gate_vars, http>>

HowToBetReply(t) ==
    /\ tasks[t].pc = "h_reply"
    /\ MayRun(t)
    /\ IF tasks[t].gate = "fail"
       THEN AskUserToJoin(t)
       ELSE /\ tasks' = [tasks EXCEPT ![t] = Goto(Say(@, "howtobet"), "done")]
            /\ UNCHANGED buttons
    /\ UNCHANGED <<store, update_queue, ingested, ghost, gate_vars, http>>

\* variant: profile without its gate check
ProfileReplyUngated(t) ==
    /\ tasks[t].pc = "p_reply"
    /\ MayRun(t)
    /\ tasks' = [tasks EXCEPT ![t] =
                    LET read == Say(Say(@, "users.find_one"),
                                    "predictions.count_documents")
                    IN  IF find_one(users, tasks[t].user) = 0
                        THEN Raise(read, "AttributeError")
                        ELSE Goto(Say(read, "profile"), "done")]
    /\ UNCHANGED <<store, update_queue, ingested, buttons, ghost, gate_vars,
                   http>>

\* profile: get_user_stats, then user_data.get on what find_one returned
ProfileReply(t) ==
    /\ tasks[t].pc = "p_reply"
    /\ MayRun(t)
    /\ IF tasks[t].gate = "fail"
       THEN AskUserToJoin(t)
       ELSE /\ tasks' = [tasks EXCEPT ![t] =
                            LET read == Say(Say(@, "users.find_one"),
                                            "predictions.count_documents")
                            IN  IF find_one(users, tasks[t].user) = 0
                                THEN Raise(read, "AttributeError")
                                ELSE Goto(Say(read, "profile"), "done")]
            /\ UNCHANGED buttons
    /\ UNCHANGED <<store, update_queue, ingested, ghost, gate_vars, http>>

Leaderboard(t) ==
    /\ tasks[t].pc = "l_reply"
    /\ MayRun(t)
    /\ tasks' = [tasks EXCEPT ![t] =
                    Goto(Say(Say(@, "leaderboard.find"),
                             IF leaderboard = <<>> THEN "leaderboard_empty"
                             ELSE "leaderboard"), "done")]
    /\ UNCHANGED <<store, update_queue, ingested, buttons, ghost, gate_vars, http>>

\* variant: the comparison with the admin id is left out
IsAdminAnyone(user) == TRUE

\* update.effective_user.id != CONFIG['admin_id'], negated
IsAdmin(user) == user = AdminId

\* stats: the denial, or the two counts and the reply
Stats(t) ==
    /\ tasks[t].pc = "st_auth"
    /\ MayRun(t)
    /\ tasks' = [tasks EXCEPT ![t] =
                    IF ~IsAdmin(tasks[t].user)
                    THEN Goto(Say(@, "denied"), "done")
                    ELSE Goto(Say(Say(Say(@, "users.count_documents"),
                                      "predictions.count_documents"),
                                  "stats"), "done")]
    /\ UNCHANGED <<store, update_queue, ingested, buttons, ghost, gate_vars, http>>

ContactUs(t) ==
    /\ tasks[t].pc = "c_reply"
    /\ MayRun(t)
    /\ tasks' = [tasks EXCEPT ![t] = Goto(Say(@, "contact"), "done")]
    /\ UNCHANGED <<store, update_queue, ingested, buttons, ghost, gate_vars, http>>

----------------------------------------------------------------------------
(* Verify callback *)

\* variant: verify_membership goes on whatever its gate check returned
VerifyReplyUnchecked(t) ==
    /\ tasks[t].pc = "v_reply"
    /\ MayRun(t)
    /\ tasks' = [tasks EXCEPT ![t] = Goto(Say(@, "edit_verified"), "s_add")]
    /\ UNCHANGED <<store, update_queue, ingested, buttons, ghost, gate_vars,
                   http>>

\* verify_membership after its gate check: edit the prompt and run start,
\* or answer the callback with an alert
VerifyReply(t) ==
    /\ tasks[t].pc = "v_reply"
    /\ MayRun(t)
    /\ tasks' = [tasks EXCEPT ![t] =
                    IF tasks[t].gate = "pass"
                    THEN Goto(Say(@, "edit_verified"), "s_add")
                    ELSE Goto(Say(@, "alert"), "done")]
    /\ UNCHANGED <<store, update_queue, ingested, buttons, ghost, gate_vars, http>>

----------------------------------------------------------------------------
(* Prediction handlers *)

\* await query.answer()
Answer(t) ==
    /\ tasks[t].pc = "answer"
    /\ MayRun(t)
    /\ tasks' = [tasks EXCEPT ![t] = Goto(Say(@, "answer"), "placeholder")]
    /\ UNCHANGED <<store, update_queue, ingested, buttons, ghost, gate_vars, http>>

\* show_sync_animation: reply_text(SYNC_FRAMES[0])
Placeholder(t) ==
    /\ tasks[t].pc = "placeholder"
    /\ MayRun(t)
    /\ tasks' = [tasks EXCEPT ![t] =
                    [Goto(Say(@, "placeholder"), "animate")
                        EXCEPT !.frame = 1]]
    /\ UNCHANGED <<store, update_queue, ingested, buttons, ghost, gate_vars, http>>

\* variant: the loop runs over all of SYNC_FRAMES, the first frame included
EditAllFrames(t) ==
    /\ tasks[t].pc = "animate"
    /\ MayRun(t)
    /\ \/ tasks' = [tasks EXCEPT ![t] =
                       [Goto(Say(@, "edit"),
                             IF @.frame = NumFrames THEN "draw"
                             ELSE "animate")
                           EXCEPT !.frame = @ + 1]]
       \/ tasks' = [tasks EXCEPT ![t] = Raise(@, "BadRequest")]
    /\ UNCHANGED <<store, update_queue, ingested, buttons, ghost, gate_vars,
                   http>>

\* show_sync_animation: sleep(1), then edit_text of the next frame; the edit
\* raises when the provider rejects it
Edit(t) ==
    /\ tasks[t].pc = "animate"
    /\ MayRun(t)
    /\ \/ tasks' = [tasks EXCEPT ![t] =
                       [Goto(Say(@, "edit"),
                             IF @.frame + 1 = NumFrames THEN "draw"
                             ELSE "animate")
                           EXCEPT !.frame = @ + 1]]
       \/ tasks' = [tasks EXCEPT ![t] = Raise(@, "BadRequest")]
    /\ UNCHANGED <<store, update_queue, ingested, buttons, ghost, gate_vars, http>>

\* variant: the comparison is strict
SizeOfStrict(number) == IF number < SmallMax THEN "SMALL" ELSE "BIG"

\* size = "SMALL" if number <= 4 else "BIG"

SizeOf(number) == IF number <= SmallMax THEN "SMALL" ELSE "BIG"

\* random.choice of the colour, or random.randint(1, 10) and its size
Draws(kind) ==
    IF kind = "color_prediction"
    THEN {[number |-> 0, label |-> c] : c \in {"RED", "GREEN"}}
    ELSE {[number |-> n, label |-> SizeOf(n)] : n \in 1..MaxNumber}

Draw(t) ==
    /\ tasks[t].pc = "draw"
    /\ MayRun(t)
    /\ \E d \in Draws(tasks[t].kind) :
        tasks' = [tasks EXCEPT ![t] =
                     [Goto(Say(@, "random"), "insert") EXCEPT !.draw = d]]
    /\ UNCHANGED <<store, update_queue, ingested, buttons, ghost, gate_vars, http>>

TypeOf(kind) == IF kind = "color_prediction" THEN "color" ELSE "number"

\* add_prediction(...): the insert, or the driver raising
Insert(t) ==
    /\ tasks[t].pc = "insert"
    /\ \/ /\ predictions' =
                 add_prediction(predictions, tasks[t].user,
                                TypeOf(tasks[t].kind), tasks[t].draw, now)
          /\ tasks' = [tasks EXCEPT ![t] =
                          Goto(Say(@, "predictions.insert_one"), "inc")]
       \/ /\ tasks' = [tasks EXCEPT ![t] =
                          Raise(Say(@, "predictions.insert_one"),
                                "PyMongoError")]
          /\ UNCHANGED predictions
    /\ UNCHANGED <<users, leaderboard, update_queue, ingested, buttons, ghost,
                   gate_vars, http>>

\* update_leaderboard(...): the upsert, or the driver raising
Increment(t) ==
    /\ tasks[t].pc = "inc"
    /\ \/ /\ leaderboard' =
                 update_leaderboard(leaderboard, tasks[t].user, tasks[t].user,
                                    Points)
          /\ tasks' = [tasks EXCEPT ![t] =
                          Goto(Say(@, "leaderboard.update_one"), "delete")]
          /\ UNCHANGED unscored
       \/ /\ tasks' = [tasks EXCEPT ![t] =
                          Raise(Say(@, "leaderboard.update_one"),
                                "PyMongoError")]
          /\ unscored' = [unscored EXCEPT ![tasks[t].user] = @ + 1]
          /\ UNCHANGED leaderboard
    /\ UNCHANGED <<users, predictions, update_queue, ingested, buttons,
                   completed, gate_vars, http>>

\* await sync_message.delete()
DeletePlaceholder(t) ==
    /\ tasks[t].pc = "delete"
    /\ MayRun(t)
    /\ tasks' = [tasks EXCEPT ![t] = Goto(Say(@, "delete"), "result")]
    /\ UNCHANGED <<store, update_queue, ingested, buttons, ghost, gate_vars, http>>

\* reply_photo with the outcome and the "Get Prediction Again" button
Result(t) ==
    /\ tasks[t].pc = "result"
    /\ MayRun(t)
    /\ tasks' = [tasks EXCEPT ![t] =
                    [Goto(Say(@, "result"), "done")
                        EXCEPT !.shown = tasks[t].draw]]
    /\ buttons' = buttons \cup {"predict"}
    /\ completed' = [completed EXCEPT ![tasks[t].user] = @ + 1]
    /\ UNCHANGED <<store, update_queue, ingested, unscored, gate_vars, http>>

----------------------------------------------------------------------------
(* Broadcast *)

RECURSIVE UserIds(_)
\* users_collection.find({}, {'user_id': 1})
UserIds(us) ==
    IF us = <<>> THEN <<>> ELSE <<Head(us).user_id>> \o UserIds(Tail(us))

\* the admin check, the argument check, and the cursor over the users
BroadcastAuth(t) ==
    /\ tasks[t].pc = "b_auth"
    /\ MayRun(t)
    /\ tasks' = [tasks EXCEPT ![t] =
                    IF ~IsAdmin(tasks[t].user)
                    THEN Goto(Say(@, "denied"), "done")
                    ELSE IF ~tasks[t].args
                    THEN Goto(Say(@, "usage"), "done")
                    ELSE [Goto(Say(@, "users.find"), "b_send")
                             EXCEPT !.cursor = UserIds(users)]]
    /\ UNCHANGED <<store, update_queue, ingested, buttons, ghost, gate_vars, http>>

\* success += 1 after a send that returned; unchanged in the except branch
Tally(success, ok) == IF ok THEN success + 1 ELSE success

\* variant: the exception of a failed send ends the loop
AfterSendAborting(task, ok) ==
    [task EXCEPT !.cursor = IF ok THEN Tail(@) ELSE <<>>,
                 !.sent = Append(@, [user_id |-> Head(task.cursor),
                                     ok |-> ok]),
                 !.success = Tally(@, ok)]

\* what follows one send: the loop goes on whether or not it raised
AfterSend(task, ok) ==
    [task EXCEPT !.cursor = Tail(@),
                 !.sent = Append(@, [user_id |-> Head(task.cursor),
                                     ok |-> ok]),
                 !.success = Tally(@, ok)]

\* one iteration of the loop: send_message returns or raises
BroadcastSend(t) ==
    /\ tasks[t].pc = "b_send"
    /\ tasks[t].cursor # <<>>
    /\ MayRun(t)
    /\ \E ok \in BOOLEAN : tasks' = [tasks EXCEPT ![t] = AfterSend(@, ok)]
    /\ UNCHANGED <<store, update_queue, ingested, buttons, ghost, gate_vars, http>>

\* reply_text(f"Broadcast sent to {success} users.")
BroadcastReport(t) ==
    /\ tasks[t].pc = "b_send"
    /\ tasks[t].cursor = <<>>
    /\ MayRun(t)
    /\ tasks' = [tasks EXCEPT ![t] =
                    [Goto(Say(@, "report"), "done")
                        EXCEPT !.reported = tasks[t].success]]
    /\ UNCHANGED <<store, update_queue, ingested, buttons, ghost, gate_vars, http>>

----------------------------------------------------------------------------
(* The bot *)

StartStep(t) ==
    \/ StartAddUser(t)
    \/ Gate(t)
    \/ StartReply(t)
    \/ Finish(t)

PredictionStep(t) ==
    \/ Answer(t)
    \/ Placeholder(t)
    \/ Edit(t)
    \/ Draw(t)
    \/ Insert(t)
    \/ Increment(t)
    \/ DeletePlaceholder(t)
    \/ Result(t)

BroadcastStep(t) ==
    \/ BroadcastAuth(t)
    \/ BroadcastSend(t)
    \/ BroadcastReport(t)

Step(t) ==
    \/ Gate(t)
    \/ StartAddUser(t)
    \/ StartReply(t)
    \/ HowToBetReply(t)
    \/ ProfileReply(t)
    \/ Leaderboard(t)
    \/ Stats(t)
    \/ ContactUs(t)
    \/ VerifyReply(t)
    \/ Answer(t)
    \/ Placeholder(t)
    \/ Edit(t)
    \/ Draw(t)
    \/ Insert(t)
    \/ Increment(t)
    \/ DeletePlaceholder(t)
    \/ Result(t)
    \/ BroadcastAuth(t)
    \/ BroadcastSend(t)
    \/ BroadcastReport(t)
    \/ Finish(t)

Next ==
    \/ Ingest
    \/ Dispatch
    \/ \E t \in Tasks : Step(t)

Spec == Init /\ [][Next]_vars

\* starts and predictions only, scheduled as the program schedules them
NextPredict ==
    \/ IngestPredict
    \/ Dispatch
    \/ \E t \in Tasks : StartStep(t) \/ PredictionStep(t)

SpecPredict == Init /\ [][NextPredict]_vars

\* starts and predictions only, with handlers in flight side by side: the
\* scheduling the program would have with concurrent_updates.  Every
\* behaviour of SpecPredict is one of SpecConcurrent.
NextConcurrent ==
    \/ IngestPredict
    \/ DispatchConcurrent
    \/ \E t \in Tasks : StartStep(t) \/ PredictionStep(t)

SpecConcurrent == Init /\ [][NextConcurrent]_vars

\* starts and broadcasts only
NextBroadcast ==
    \/ IngestBroadcast
    \/ Dispatch
    \/ \E t \in Tasks : StartStep(t) \/ BroadcastStep(t)

SpecBroadcast == Init /\ [][NextBroadcast]_vars

\* requests to telegram_webhook, and the start handlers they lead to
NextWebhook ==
    \/ TelegramWebhook
    \/ Dispatch
    \/ \E t \in Tasks : StartStep(t)

SpecWebhook == Init /\ [][NextWebhook]_vars

\* the gate on its own, over every vector of query outcomes
InitGate ==
    /\ InitBot
    /\ gq \in [Channels -> QueryOutcomes]
    /\ gres = "none"

GateCall ==
    /\ gres = "none"
    /\ gres' = IF is_user_member(gq) THEN "pass" ELSE "fail"
    /\ UNCHANGED <<store, update_queue, ingested, tasks, buttons, ghost, gq,
                   http>>

SpecGate == InitGate /\ [][GateCall]_vars

----------------------------------------------------------------------------
(* Properties *)

HasUser(u) == find_one(users, u) # 0
HasRecord(u) == count_documents(predictions, u) > 0
HasEntry(u) == find_one(leaderboard, u) # 0

\* the handler in slot t has inserted its PredictionRecord
WroteRecord(t) ==
    \/ tasks[t].pc \in {"inc", "delete", "result"}
    \/ tasks[t].pc = "done" /\ tasks[t].kind \in PredictionKinds
    \/ tasks[t].pc = "crashed" /\ tasks[t].at = "inc"

\* C1: a prediction callback from a user for whom the gate fails only issues
\* the join prompt: no animation message, no PredictionRecord, no
\* leaderboard increment and no result message.
C1_PredictionGated ==
    \A t \in Tasks :
        (tasks[t].kind \in PredictionKinds /\ ~tasks[t].member) =>
            /\ \A i \in DOMAIN tasks[t].out :
                   tasks[t].out[i] \in {"answer", "join_prompt"}
            /\ ~WroteRecord(t)

\* C2: the gate returns true iff every required channel's query succeeds
\* with a status among member, administrator, creator; one query raising
\* makes it false whatever the other channels report.
C2_GateIffMemberEverywhere ==
    gres # "none" =>
        (gres = "pass" <=> \A c \in Channels : gq[c] \in MemberStatuses)

C2_Witness ==
    /\ gres = "fail"
    /\ \E c \in Channels :
        /\ gq[c] = "error"
        /\ \A d \in Channels \ {c} : gq[d] \in MemberStatuses

\* C3: the user upsert is idempotent: a further call for an id that has a
\* User record leaves one record for that id and leaves its balance and
\* join timestamp as the first call wrote them.
C3_UpsertIdempotent ==
    [][/\ \A i \in 1..Len(users) :
            /\ i <= Len(users')
            /\ users'[i].user_id = users[i].user_id
            /\ users'[i].balance = users[i].balance
            /\ users'[i].join_date = users[i].join_date
       /\ \A i, j \in 1..Len(users') :
            users'[i].user_id = users'[j].user_id => i = j]_vars

\* prediction handlers of user u at one of the positions pcs
InFlight(u, pcs) ==
    Cardinality({t \in Tasks : tasks[t].user = u /\ tasks[t].pc \in pcs})

\* C4: every completed prediction has appended exactly one PredictionRecord
\* for its user and raised that user's score by exactly 1, also with several
\* handlers of the same user in flight: the score is the number of runs
\* that have applied their increment, and the records are those runs, the
\* runs between their two writes, and the runs whose increment raised.
C4_OneRecordOnePoint ==
    \A u \in Users :
        /\ Score(leaderboard, u) =
               completed[u] + InFlight(u, {"delete", "result"})
        /\ count_documents(predictions, u) =
               completed[u] + InFlight(u, {"inc", "delete", "result"})
                   + unscored[u]

\* two handlers of one user in flight at once, both past their increment
C4_Witness ==
    \E u \in Users :
        /\ InFlight(u, {"delete", "result"}) = 2
        /\ Score(leaderboard, u) = 2
        /\ count_documents(predictions, u) = 2

\* C5: every user id that owns a PredictionRecord or a LeaderboardEntry has
\* a User record.
C5_UserRowFirst ==
    \A u \in Users : (HasRecord(u) \/ HasEntry(u)) => HasUser(u)

\* C6: a failing insert of the PredictionRecord or a failing leaderboard
\* increment does not crash the prediction handler: no exception escapes it.
C6_PersistenceFailureAbsorbed ==
    \A t \in Tasks :
        ~(tasks[t].pc = "crashed" /\ tasks[t].at \in {"insert", "inc"})

\* C7: in every state of the store, a LeaderboardEntry for a user exists
\* iff at least one PredictionRecord for that user exists.
C7_EntryIffRecord ==
    \A u \in Users : HasEntry(u) <=> HasRecord(u)

\* C8: a user with zero PredictionRecords has no LeaderboardEntry, after any
\* sequence of commands and callbacks.
C8_NoEntryWithoutRecord ==
    \A u \in Users : ~HasRecord(u) => ~HasEntry(u)

C8_Witness ==
    \E u, v \in Users :
        /\ u # v
        /\ HasUser(u)
        /\ ~HasRecord(u)
        /\ ~HasEntry(u)
        /\ HasEntry(v)
        /\ \A t \in Tasks : ~Running(t)

\* C9: while a prediction handler for one user is suspended between two
\* animation edits, a queued update of another user can start being
\* handled: handlers of different users are not serialized.
C9_NotSerialized ==
    \A t \in Tasks :
        (/\ tasks[t].kind \in PredictionKinds
         /\ tasks[t].pc = "animate"
         /\ update_queue # <<>>
         /\ Head(update_queue).user # tasks[t].user) => ENABLED Dispatch

RECURSIVE SentIds(_)
SentIds(sent) ==
    IF sent = <<>> THEN <<>>
    ELSE <<Head(sent).user_id>> \o SentIds(Tail(sent))

Successes(sent) == Cardinality({i \in 1..Len(sent) : sent[i].ok})

\* C10: a broadcast by the admin with text attempts one send to every known
\* user id, in one pass; a send that fails aborts nothing, no exception
\* escapes the handler, and the count reported is the number of sends that
\* succeeded.
C10_BroadcastIsolation ==
    \A t \in Tasks :
        tasks[t].kind = "broadcast" =>
            /\ tasks[t].pc # "crashed"
            /\ tasks[t].pc = "b_send" =>
                   SentIds(tasks[t].sent) \o tasks[t].cursor = UserIds(users)
            /\ (tasks[t].pc = "done" /\ tasks[t].user = AdminId
                    /\ tasks[t].args) =>
                   /\ SentIds(tasks[t].sent) = UserIds(users)
                   /\ tasks[t].reported = Successes(tasks[t].sent)

C10_Witness ==
    \E t \in Tasks :
        /\ tasks[t].kind = "broadcast"
        /\ tasks[t].pc = "done"
        /\ Len(tasks[t].sent) = 2
        /\ ~tasks[t].sent[1].ok
        /\ tasks[t].sent[2].ok
        /\ tasks[t].reported = 1

\* the store calls among the calls the handler in slot t has made
StoreCallsOf(t) ==
    {i \in DOMAIN tasks[t].out : tasks[t].out[i] \in StoreCalls}

AdminKinds == {"stats", "broadcast"}

\* C11: stats or broadcast from a caller who is not the admin makes no call
\* on the store, sends no broadcast message, and replies with the denial
\* and nothing else.
C11_NonAdminDenied ==
    \A t \in Tasks :
        (tasks[t].kind \in AdminKinds /\ tasks[t].user # AdminId) =>
            /\ StoreCallsOf(t) = {}
            /\ tasks[t].sent = <<>>
            /\ tasks[t].pc \in {"st_auth", "b_auth", "done"}
            /\ tasks[t].pc = "done" => tasks[t].out = <<"denied">>
            /\ tasks[t].pc # "done" => tasks[t].out = <<>>

C11_Witness ==
    \E t \in Tasks :
        /\ tasks[t].kind = "broadcast"
        /\ tasks[t].user # AdminId
        /\ tasks[t].args
        /\ tasks[t].pc = "done"
        /\ users # <<>>

\* C12: a webhook request whose secret is invalid or missing is rejected
\* before enqueue: it puts no update on the queue.
C12_SecretChecked ==
    http.secret \in {"invalid", "missing"} => http.after = http.before

\* C13: a malformed body gets a client-error response and leaves the queue
\* as long as it was; a well-formed body is enqueued exactly once and
\* answered with success while its update is still on the queue.
C13_WebhookResponses ==
    /\ http.body = "malformed" =>
           http.response = "4xx" /\ http.after = http.before
    /\ http.body = "update" =>
           http.response = "OK" /\ http.after = http.before + 1

GatedCommandKinds == {"profile", "howtobet"}

\* C14: profile and how-to-bet from a user for whom the gate fails send the
\* join prompt once and nothing else: no store call is made and no profile
\* or how-to-bet content is sent.
C14_GatedCommandsShortCircuit ==
    \A t \in Tasks :
        (tasks[t].kind \in GatedCommandKinds /\ tasks[t].gate = "fail") =>
            /\ StoreCallsOf(t) = {}
            /\ tasks[t].pc \in {"p_reply", "h_reply", "done"}
            /\ tasks[t].pc = "done" => tasks[t].out = <<"join_prompt">>
            /\ tasks[t].pc # "done" => tasks[t].out = <<>>

C14_Witness ==
    \E t \in Tasks :
        /\ tasks[t].kind = "profile"
        /\ tasks[t].gate = "fail"
        /\ tasks[t].pc = "done"
        /\ HasUser(tasks[t].user)

\* the size label of a drawn number, as the claim states it
NumberMapping(d) ==
    /\ d.number \in 1..10
    /\ d.label = "SMALL" <=> d.number \in 1..4
    /\ d.label = "BIG" <=> d.number \in 5..10

\* C15: the size label of a number prediction is SMALL iff the number is
\* in 1..4 and BIG iff it is in 5..10, in every PredictionRecord and in
\* every result message, and the message shows what the record holds.
C15_SizeLabel ==
    /\ \A i \in DOMAIN predictions :
           predictions[i].type = "number" =>
               NumberMapping(predictions[i].result)
    /\ \A t \in Tasks :
           (tasks[t].kind = "number_prediction" /\ tasks[t].shown # NoDraw) =>
               /\ NumberMapping(tasks[t].shown)
               /\ \E i \in DOMAIN predictions :
                      /\ predictions[i].user_id = tasks[t].user
                      /\ predictions[i].type = "number"
                      /\ predictions[i].result = tasks[t].shown

C15_Witness ==
    \E t \in Tasks :
        /\ tasks[t].kind = "number_prediction"
        /\ tasks[t].pc = "done"
        /\ tasks[t].shown = [number |-> 4, label |-> "SMALL"]
        /\ \E i \in DOMAIN predictions :
               predictions[i].result = tasks[t].shown

\* verify_membership has found the gate failing and has not yet acted on it
VerifyFailed(t) ==
    /\ tasks[t].kind = "verify_membership"
    /\ tasks[t].pc = "v_reply"
    /\ tasks[t].gate = "fail"

\* C16: a Verify callback for which the gate fails answers the callback
\* with an alert and returns: it sends and edits no message, and no User,
\* PredictionRecord or LeaderboardEntry is created or modified.
C16_VerifyFailure ==
    [][\A t \in Tasks :
           (VerifyFailed(t) /\ tasks'[t] # tasks[t]) =>
               /\ tasks'[t].pc = "done"
               /\ tasks'[t].out = <<"alert">>
               /\ store' = store
               /\ buttons' = buttons]_vars

C16_Witness ==
    \E t \in Tasks :
        /\ tasks[t].kind = "verify_membership"
        /\ tasks[t].gate = "fail"
        /\ tasks[t].pc = "done"
        /\ tasks[t].out = <<"alert">>
        /\ HasUser(tasks[t].user)

\* C17: a Verify callback for which the gate passes, and passes again in
\* start, edits the join prompt into the confirmation and then completes
\* the start flow: the User is upserted, the welcome menu is delivered and
\* no exception is raised.
C17_VerifySuccessRunsStart ==
    \A t \in Tasks :
        (/\ tasks[t].kind = "verify_membership"
         /\ tasks[t].member
         /\ tasks[t].gate = "pass"
         /\ tasks[t].pc \in {"done", "crashed"}) =>
            /\ tasks[t].pc = "done"
            /\ tasks[t].out = <<"edit_verified", "users.update_one", "welcome">>

\* C18: a failing edit of the animated placeholder does not crash the
\* prediction handler: no exception raised by an edit leaves the handler.
C18_EditFailureContained ==
    \A t \in Tasks : ~(tasks[t].pc = "crashed" /\ tasks[t].at = "animate")

\* the calls of a prediction run that applies n edits to its placeholder
RunOf(n) ==
    <<"answer", "placeholder">> \o [i \in 1..n |-> "edit"] \o
    <<"random", "predictions.insert_one", "leaderboard.update_one",
      "delete", "result">>

IsPrefix(s, r) == Len(s) <= Len(r) /\ \A i \in DOMAIN s : s[i] = r[i]

\* every prediction handler follows RunOf(n), and has made all of its
\* calls when it completes
RunsInOrder(n) ==
    \A t \in Tasks :
        tasks[t].kind \in PredictionKinds =>
            /\ IsPrefix(tasks[t].out, RunOf(n))
            /\ tasks[t].pc = "done" => tasks[t].out = RunOf(n)

\* C19: every prediction run that completes acknowledges the callback,
\* sends one placeholder, applies as many edits to it as the completion
\* indicator has stages (six), draws, persists, deletes the placeholder
\* and sends the result, in this order.
C19_SixEdits == RunsInOrder(NumFrames)

\* C19, amended: the placeholder is sent showing the first stage and the
\* edits show the others, so a run applies one edit fewer than there are
\* stages (five); the order is as stated.
C19_FiveEdits == RunsInOrder(NumFrames - 1)

C19_Witness ==
    \E t \in Tasks :
        /\ tasks[t].kind \in PredictionKinds
        /\ tasks[t].pc = "done"
        /\ tasks[t].frame = NumFrames
        /\ tasks[t].out = RunOf(NumFrames - 1)

\* C20: for a user who passes the gate, profile sends exactly one profile
\* reply and raises no exception, whether or not a User row exists.
C20_ProfileReplies ==
    \A t \in Tasks :
        (/\ tasks[t].kind = "profile"
         /\ tasks[t].gate = "pass"
         /\ tasks[t].pc \in {"done", "crashed"}) =>
            /\ tasks[t].pc = "done"
            /\ Cardinality({i \in DOMAIN tasks[t].out :
                               tasks[t].out[i] = "profile"}) = 1

====
